---- MODULE Spec2Model ----
(***************************************************************************)
(* AnonSend (main/views.py): upload with deduplication by content hash,    *)
(* the password / expiry / download-count gate of a public link, and the   *)
(* analytics view.  Every request runs in its own worker; a worker's step  *)
(* is one database or storage access together with the local computation   *)
(* that follows it, so that requests interleave between their queries.     *)
(***************************************************************************)
EXTENDS Integers, Sequences, FiniteSets, TLC

\* ---- bounds of the model ----
MaxTime == 3
MaxUploads == 2
MaxEvents == 2

\* two workers serve requests at the same time
Procs == {1, 2}
Times == 0..MaxTime
Hashes == {"h1", "h2"}
\* the upload forms tried: file name, content hash, password, expiry, download limit
UploadForms ==
    { [file_name |-> "a.txt", file_hash |-> "h1", password |-> "x",
       expires_at |-> MaxTime - 1, max_downloads |-> 1],
      [file_name |-> "b.txt", file_hash |-> "h1", password |-> "",
       expires_at |-> MaxTime, max_downloads |-> 2],
      [file_name |-> "a.txt", file_hash |-> "h2", password |-> "x",
       expires_at |-> MaxTime, max_downloads |-> 1] }
SubmittedPasswords == {"", "x", "y"}
Metas == {"ua1", "ua2"}
Methods == {"GET", "POST"}
ChartAttributes == <<"os", "device_type", "browser">>
\* the columns of the detail table that the view fills in (time_clicked is
\* filled in by the model layer and left out)
DetailFields == <<"os", "device_type", "browser", "country", "region", "city">>

VARIABLES
    records,      \* table UploadFiles: a set of rows, primary key public_link
    events,       \* table Analytics: rows in insertion (id) order
    store,        \* paths that exist in the file storage
    writes,       \* physical writes performed, counted per content hash
    granted,      \* FileResponses returned, counted per public link
    now,          \* the clock that datetime.now() reads
    pc,           \* position of each worker in the view it runs
    model,        \* uploaded_link's local `model`
    upload_file,  \* public_link_handle's local `upload_file`
    form,         \* public_link_handle's request: method, form validity, password
    response      \* the request answered by the step just taken, with its response

vars == <<records, events, store, writes, granted, now, pc, model, upload_file, form, response>>

\* ---- values ----
NoFile == <<>>
NoLink == <<"-", 0>>
NoRecord ==
    [public_link |-> NoLink, analytic_link |-> NoLink, file |-> NoFile, file_name |-> "",
     file_hash |-> "", password |-> "", expires_at |-> 0, max_downloads |-> 0]
NoForm == [method |-> "", valid |-> FALSE, password |-> ""]
NoResponse == [view |-> "none", kind |-> "none"]

\* Links are generated with the timestamp as seed.
PublicLinkOf(seed) == <<"p", seed>>
AnalyticLinkOf(seed) == <<"a", seed>>
PublicLinks == {PublicLinkOf(t) : t \in Times}
AnalyticLinks == {AnalyticLinkOf(t) : t \in Times}

\* a link of every record, and one link that no record ever has (an upload
\* starts before MaxTime, so no seed is MaxTime)
PublicLinksTried == {r.public_link : r \in records} \cup {PublicLinkOf(MaxTime)}
AnalyticLinksTried == {r.analytic_link : r \in records} \cup {AnalyticLinkOf(MaxTime)}

Max(a, b) == IF a > b THEN a ELSE b

\* UploadFiles(file=..., file_name=..., file_hash=..., password=..., ...)
NewUploadFiles(name, hash, password, expires_at, max_downloads, seed) ==
    [public_link |-> PublicLinkOf(seed), analytic_link |-> AnalyticLinkOf(seed),
     file |-> NoFile, file_name |-> name, file_hash |-> hash, password |-> password,
     expires_at |-> expires_at, max_downloads |-> max_downloads]

\* UploadFiles.objects.all().filter(file_hash=model.file_hash)
SameContentByName(r, m) == r.file_name = m.file_name
SameContent(r, m) == r.file_hash = m.file_hash
QuerySetByHash(recs, m) == {r \in recs : SameContent(r, m)}

\* query_set.first(): the row with the least primary key
First(qs) == CHOOSE r \in qs : \A s \in qs : r.public_link[2] <= s.public_link[2]

\* name = "/".join([model.file_hash] + file.name.split("/"))
StorageName(m) == <<m.file_hash, m.file_name>>

\* the storage's save(): an existing path is never overwritten, the name gets a suffix
AvailableName(st, name) ==
    LET k == CHOOSE i \in 0..Cardinality(st) :
                 /\ <<name[1], name[2], i>> \notin st
                 /\ \A j \in 0..(i - 1) : <<name[1], name[2], j>> \in st
    IN <<name[1], name[2], k>>

\* model.save(): update the row with this primary key, or insert it
Save(recs, m) == {r \in recs : r.public_link # m.public_link} \cup {m}

Uploading == {q \in Procs : pc[q] \in {"reuse", "store", "save"}}

\* the view returns r: the worker is free again
Finish(p, r) ==
    /\ pc' = [pc EXCEPT ![p] = "idle"]
    /\ response' = r

\* the view goes on to its next query
Goto(p, label) ==
    /\ pc' = [pc EXCEPT ![p] = label]
    /\ response' = NoResponse

Init ==
    /\ records = {}
    /\ events = <<>>
    /\ store = {}
    /\ writes = [h \in Hashes |-> 0]
    /\ granted = [l \in PublicLinks |-> 0]
    /\ now = 0
    /\ pc = [p \in Procs |-> "idle"]
    /\ model = [p \in Procs |-> NoRecord]
    /\ upload_file = [p \in Procs |-> NoRecord]
    /\ form = [p \in Procs |-> NoForm]
    /\ response = NoResponse

\* ---- uploaded_link ----

\* lines 40-56: validate the form, build the model, look for the same hash
UploadStart(p) ==
    /\ pc[p] = "idle"
    /\ now < MaxTime
    /\ Cardinality(records) + Cardinality(Uploading) < MaxUploads
    /\ \E method \in Methods, valid \in BOOLEAN, upload \in UploadForms :
          IF method = "POST" /\ valid
          THEN LET m == NewUploadFiles(upload.file_name, upload.file_hash, upload.password,
                                        upload.expires_at, upload.max_downloads, now)
               IN /\ model' = [model EXCEPT ![p] = m]
                  /\ Goto(p, IF QuerySetByHash(records, m) # {} THEN "reuse" ELSE "store")
          ELSE /\ Finish(p, [view |-> "upload", kind |-> "Redirect"])
               /\ model' = model
    /\ UNCHANGED <<records, events, store, writes, granted, now, upload_file, form>>

\* line 61: model.file = query_set.first().file
UploadReuse(p) ==
    /\ pc[p] = "reuse"
    /\ LET qs == QuerySetByHash(records, model[p])
       IN IF qs = {}
          THEN /\ Finish(p, [view |-> "upload", kind |-> "ServerError"])
               /\ model' = [model EXCEPT ![p] = NoRecord]
          ELSE /\ model' = [model EXCEPT ![p].file = First(qs).file]
               /\ Goto(p, "save")
    /\ UNCHANGED <<records, events, store, writes, granted, now, upload_file, form>>

\* lines 69-73, with the row saved before the bytes are written
UploadStoreRecordFirst(p) ==
    /\ pc[p] = "store"
    /\ \E ok \in BOOLEAN :
          LET path == AvailableName(store, StorageName(model[p]))
              m == [model[p] EXCEPT !.file = path]
          IN /\ records' = Save(records, m)
             /\ IF ok
                THEN /\ store' = store \cup {path}
                     /\ writes' = [writes EXCEPT ![m.file_hash] = @ + 1]
                     /\ model' = [model EXCEPT ![p] = m]
                     /\ Goto(p, "save")
                ELSE /\ Finish(p, [view |-> "upload", kind |-> "StorageWriteFailed",
                                   file_hash |-> model[p].file_hash])
                     /\ model' = [model EXCEPT ![p] = NoRecord]
                     /\ UNCHANGED <<store, writes>>
    /\ UNCHANGED <<events, granted, now, upload_file, form>>

\* lines 69-73: model.file.save(name, file) writes the bytes and saves the row
UploadStore(p) ==
    /\ pc[p] = "store"
    /\ \E ok \in BOOLEAN :
          IF ok
          THEN LET path == AvailableName(store, StorageName(model[p]))
                   m == [model[p] EXCEPT !.file = path]
               IN /\ store' = store \cup {path}
                  /\ writes' = [writes EXCEPT ![m.file_hash] = @ + 1]
                  /\ model' = [model EXCEPT ![p] = m]
                  /\ records' = Save(records, m)
                  /\ Goto(p, "save")
          ELSE /\ Finish(p, [view |-> "upload", kind |-> "StorageWriteFailed",
                             file_hash |-> model[p].file_hash])
               /\ model' = [model EXCEPT ![p] = NoRecord]
               /\ UNCHANGED <<store, writes, records>>
    /\ UNCHANGED <<events, granted, now, upload_file, form>>

\* lines 74-76: model.save() and the page with both links; the request ends
\* strictly later than the timestamp it took
UploadSave(p) ==
    /\ pc[p] = "save"
    /\ records' = Save(records, model[p])
    /\ Finish(p, [view |-> "upload", kind |-> "UploadSuccess",
                  public_link |-> model[p].public_link,
                  analytic_link |-> model[p].analytic_link])
    /\ now' = Max(now, model[p].public_link[2] + 1)
    /\ model' = [model EXCEPT ![p] = NoRecord]
    /\ UNCHANGED <<events, store, writes, granted, upload_file, form>>

\* ---- public_link_handle ----

\* get_object_or_404(UploadFiles, pk=public_link)
Lookup(recs, link) == {r \in recs : r.public_link = link}

\* line 105: form.cleaned_data['password'] != upload_file.password
PasswordMismatchUnlessEmpty(submitted, rec) == submitted # "" /\ submitted # rec.password
PasswordMismatch(submitted, rec) == submitted # rec.password

\* line 108: len(Analytics.objects.filter(upload_file=upload_file))
EventsOf(evs, link) == SelectSeq(evs, LAMBDA e : e.upload_file_id = link)
DownloadCountOfFile(evs, rec) ==
    Len(SelectSeq(evs, LAMBDA e : \E r \in records : /\ r.public_link = e.upload_file_id
                                                     /\ r.file = rec.file))
DownloadCount(evs, rec) == Len(EventsOf(evs, rec.public_link))

\* line 111: download_count < upload_file.max_downloads and expires_at > current_time
WithinConstraintsAtBoundary(download_count, rec, current_time) ==
    download_count < rec.max_downloads /\ rec.expires_at >= current_time
WithinConstraintsOffByOne(download_count, rec, current_time) ==
    download_count <= rec.max_downloads /\ rec.expires_at > current_time
WithinConstraintsNoExpiry(download_count, rec, current_time) ==
    download_count < rec.max_downloads
WithinConstraints(download_count, rec, current_time) ==
    download_count < rec.max_downloads /\ rec.expires_at > current_time

\* helper.get_analytics(request.META): the requester's metadata
get_analytics(meta) ==
    IF meta = "ua1"
    THEN [os |-> "Linux", device_type |-> "PC", browser |-> "Firefox",
          country |-> "IN", region |-> "MH", city |-> "Pune"]
    ELSE [os |-> "Windows", device_type |-> "PC", browser |-> "Chrome",
          country |-> "", region |-> "", city |-> ""]

\* Analytics(upload_file_id=public_link, **results)
NewAnalytics(link, results) ==
    [upload_file_id |-> link, os |-> results.os, device_type |-> results.device_type,
     browser |-> results.browser, country |-> results.country, region |-> results.region,
     city |-> results.city]

\* the requests tried on a public link: a GET carries no form
AccessRequests ==
    {r \in [method : Methods, valid : BOOLEAN, password : SubmittedPasswords] :
        /\ r.method = "GET" => (~r.valid /\ r.password = "")
        /\ ~r.valid => r.password = ""}

\* render(request, 'public_link.html', {"visible": visibility, ...}), after
\* messages.error(request, "Invalid password") or without a message
PasswordPage(link, r, rec, message) ==
    [view |-> "access", kind |-> IF message = "" THEN "Page" ELSE "InvalidPassword",
     link |-> link, request |-> r, visible |-> (rec.password # ""), message |-> message]

Http404(view, link, r) == [view |-> view, kind |-> "Http404", link |-> link, request |-> r]

\* line 99: get_object_or_404 finds no record
AccessNotFound(p, link, r) ==
    /\ Finish(p, Http404("access", link, r))
    /\ UNCHANGED <<records, events, store, writes, granted, now, model, upload_file, form>>

\* line 118: a GET, or a POST whose form is not valid, gets the password page
AccessPage(p, link, r, rec) ==
    /\ Finish(p, PasswordPage(link, r, rec, ""))
    /\ UNCHANGED <<records, events, store, writes, granted, now, model, upload_file, form>>

\* lines 106-107: the password differs
AccessInvalidPasswordLogged(p, link, r, rec) ==
    /\ Len(events) < MaxEvents
    /\ events' = Append(events, NewAnalytics(link, get_analytics("ua1")))
    /\ Finish(p, PasswordPage(link, r, rec, "Invalid password"))
    /\ UNCHANGED <<records, store, writes, granted, now, model, upload_file, form>>
AccessInvalidPassword(p, link, r, rec) ==
    /\ Finish(p, PasswordPage(link, r, rec, "Invalid password"))
    /\ UNCHANGED <<records, events, store, writes, granted, now, model, upload_file, form>>

\* the password is the record's: go on to the constraints
AccessEvaluate(p, r, rec) ==
    /\ Goto(p, "count")
    /\ upload_file' = [upload_file EXCEPT ![p] = rec]
    /\ form' = [form EXCEPT ![p] = r]
    /\ UNCHANGED <<records, events, store, writes, granted, now, model>>

\* lines 99-107, with the constraints looked at before the password
AccessStartConstraintsFirst(p) ==
    /\ pc[p] = "idle"
    /\ \E link \in PublicLinksTried, r \in AccessRequests :
          LET found == Lookup(records, link)
          IN IF found = {}
             THEN AccessNotFound(p, link, r)
             ELSE LET rec == CHOOSE x \in found : TRUE
                  IN IF r.method = "POST" /\ r.valid
                     THEN IF ~WithinConstraints(DownloadCount(events, rec), rec, now)
                          THEN /\ Finish(p, Http404("access", link, r))
                               /\ UNCHANGED <<records, events, store, writes, granted,
                                              now, model, upload_file, form>>
                          ELSE IF PasswordMismatch(r.password, rec)
                               THEN AccessInvalidPassword(p, link, r, rec)
                               ELSE AccessEvaluate(p, r, rec)
                     ELSE AccessPage(p, link, r, rec)

\* lines 99-107, with a GET on a record without password taken as an attempt
AccessStartGetGrants(p) ==
    /\ pc[p] = "idle"
    /\ \E link \in PublicLinksTried, r \in AccessRequests :
          LET found == Lookup(records, link)
          IN IF found = {}
             THEN AccessNotFound(p, link, r)
             ELSE LET rec == CHOOSE x \in found : TRUE
                  IN IF (r.method = "POST" /\ r.valid) \/ rec.password = ""
                     THEN IF PasswordMismatch(r.password, rec)
                          THEN AccessInvalidPassword(p, link, r, rec)
                          ELSE AccessEvaluate(p, r, rec)
                     ELSE AccessPage(p, link, r, rec)

\* lines 99-107: find the record, then the method, the form and the password
AccessStart(p) ==
    /\ pc[p] = "idle"
    /\ \E link \in PublicLinksTried, r \in AccessRequests :
          LET found == Lookup(records, link)
          IN IF found = {}
             THEN AccessNotFound(p, link, r)
             ELSE LET rec == CHOOSE x \in found : TRUE
                  IN IF r.method = "POST" /\ r.valid
                     THEN IF PasswordMismatch(r.password, rec)
                          THEN AccessInvalidPassword(p, link, r, rec)
                          ELSE AccessEvaluate(p, r, rec)
                     ELSE AccessPage(p, link, r, rec)

\* lines 108-111 and 117: count the downloads, read the clock, decide
AccessCount(p) ==
    /\ pc[p] = "count"
    /\ IF WithinConstraints(DownloadCount(events, upload_file[p]), upload_file[p], now)
       THEN /\ Len(events) + Cardinality({q \in Procs : pc[q] = "grant"}) < MaxEvents
            /\ Goto(p, "grant")
            /\ UNCHANGED <<upload_file, form>>
       ELSE /\ Finish(p, Http404("access", upload_file[p].public_link, form[p]))
            /\ upload_file' = [upload_file EXCEPT ![p] = NoRecord]
            /\ form' = [form EXCEPT ![p] = NoForm]
    /\ UNCHANGED <<records, events, store, writes, granted, now, model>>

\* lines 112-114, with the file served and no Analytics row stored
AccessGrantWithoutRow(p) ==
    /\ pc[p] = "grant"
    /\ granted' = [granted EXCEPT ![upload_file[p].public_link] = @ + 1]
    /\ Finish(p, [view |-> "access", kind |-> "File", link |-> upload_file[p].public_link,
                  request |-> form[p], file |-> upload_file[p].file,
                  filename |-> upload_file[p].file_name])
    /\ upload_file' = [upload_file EXCEPT ![p] = NoRecord]
    /\ form' = [form EXCEPT ![p] = NoForm]
    /\ UNCHANGED <<records, events, store, writes, now, model>>

\* lines 112-114, with the download also counted down in the record
AccessGrantCountsInRecord(p) ==
    /\ pc[p] = "grant"
    /\ \E meta \in Metas :
          events' = Append(events, NewAnalytics(upload_file[p].public_link,
                                                get_analytics(meta)))
    /\ records' = Save(records, [upload_file[p] EXCEPT !.max_downloads = @ - 1])
    /\ granted' = [granted EXCEPT ![upload_file[p].public_link] = @ + 1]
    /\ Finish(p, [view |-> "access", kind |-> "File", link |-> upload_file[p].public_link,
                  request |-> form[p], file |-> upload_file[p].file,
                  filename |-> upload_file[p].file_name])
    /\ upload_file' = [upload_file EXCEPT ![p] = NoRecord]
    /\ form' = [form EXCEPT ![p] = NoForm]
    /\ UNCHANGED <<store, writes, now, model>>

\* lines 112-114: store the Analytics row and serve the file
AccessGrant(p) ==
    /\ pc[p] = "grant"
    /\ \E meta \in Metas :
          events' = Append(events, NewAnalytics(upload_file[p].public_link,
                                                get_analytics(meta)))
    /\ granted' = [granted EXCEPT ![upload_file[p].public_link] = @ + 1]
    /\ Finish(p, [view |-> "access", kind |-> "File", link |-> upload_file[p].public_link,
                  request |-> form[p], file |-> upload_file[p].file,
                  filename |-> upload_file[p].file_name])
    /\ upload_file' = [upload_file EXCEPT ![p] = NoRecord]
    /\ form' = [form EXCEPT ![p] = NoForm]
    /\ UNCHANGED <<records, store, writes, now, model>>

\* ---- analytic_link_handle ----

\* UploadFiles.objects.all().filter(analytic_link=analytic_link)
QuerySetByAnalyticLink(recs, link) == {r \in recs : r.analytic_link = link}

\* line 134: query.exists() and query.first().expires_at.timestamp() > now
AnalyticsAvailableAfterExpiry(query, current_time) == query # {}
AnalyticsAvailable(query, current_time) ==
    query # {} /\ First(query).expires_at > current_time

\* line 135: Analytics.objects.filter(upload_file=query.first())
ResultsOfAll(evs, rec) == evs
Results(evs, rec) == EventsOf(evs, rec.public_link)

\* results.values_list(*fields): one tuple per row
ValuesList(results, fields) ==
    [i \in 1..Len(results) |-> [j \in 1..Len(fields) |-> results[i][fields[j]]]]

\* collections.Counter over a list: one pass, a count per value seen
RECURSIVE CounterFrom(_, _)
CounterFrom(xs, acc) ==
    IF xs = <<>> THEN acc
    ELSE LET v == Head(xs)
             next == IF v \in DOMAIN acc
                     THEN [acc EXCEPT ![v] = @ + 1]
                     ELSE [x \in DOMAIN acc \cup {v} |-> IF x = v THEN 1 ELSE acc[x]]
         IN CounterFrom(Tail(xs), next)
Counter(xs) == CounterFrom(xs, [x \in {} |-> 0])

\* lines 136-141: chart_data and detailed
ChartData(results) ==
    [a \in {ChartAttributes[j] : j \in 1..Len(ChartAttributes)} |->
        Counter([i \in 1..Len(results) |-> ValuesList(results, <<a>>)[i][1]])]
Detailed(results) == ValuesList(results, DetailFields)

\* lines 133-144, with the view itself stored as an Analytics row
AnalyticsViewLogged(p) ==
    /\ pc[p] = "idle"
    /\ \E link \in AnalyticLinksTried :
          LET query == QuerySetByAnalyticLink(records, link)
          IN IF AnalyticsAvailable(query, now)
             THEN LET results == Results(events, First(query))
                  IN /\ Finish(p, [view |-> "analytics", kind |-> "Report", link |-> link,
                                   chart_data |-> ChartData(results),
                                   detailed |-> Detailed(results)])
                     /\ Len(events) < MaxEvents
                     /\ events' = Append(events, NewAnalytics(First(query).public_link,
                                                             get_analytics("ua1")))
             ELSE /\ Finish(p, Http404("analytics", link, "GET"))
                  /\ events' = events
    /\ UNCHANGED <<records, store, writes, granted, now, model, upload_file, form>>

\* lines 133-144
AnalyticsView(p) ==
    /\ pc[p] = "idle"
    /\ \E link \in AnalyticLinksTried :
          LET query == QuerySetByAnalyticLink(records, link)
          IN IF AnalyticsAvailable(query, now)
             THEN LET results == Results(events, First(query))
                  IN Finish(p, [view |-> "analytics", kind |-> "Report", link |-> link,
                                chart_data |-> ChartData(results),
                                detailed |-> Detailed(results)])
             ELSE Finish(p, Http404("analytics", link, "GET"))
    /\ UNCHANGED <<records, events, store, writes, granted, now, model, upload_file, form>>

Tick ==
    /\ now < MaxTime
    /\ now' = now + 1
    /\ response' = NoResponse
    /\ UNCHANGED <<records, events, store, writes, granted, pc, model, upload_file, form>>

Step(p) ==
    \/ UploadStart(p)
    \/ UploadReuse(p)
    \/ UploadStore(p)
    \/ UploadSave(p)
    \/ AccessStart(p)
    \/ AccessCount(p)
    \/ AccessGrant(p)
    \/ AnalyticsView(p)

Next == Tick \/ \E p \in Procs : Step(p)

Spec == Init /\ [][Next]_vars

\* requests that do not overlap: one worker serves them one after another
NextSeq == Tick \/ Step(1)

SpecSeq == Init /\ [][NextSeq]_vars

\* ======================= properties =======================

RecordOfLink(link) == CHOOSE r \in records : r.public_link = link

\* the response just given answers a POST with a valid form on record r's public link
PostAnswered(r) ==
    /\ response.view = "access"
    /\ response.link = r.public_link
    /\ response.request.method = "POST"
    /\ response.request.valid

\* C1: for every record, the number of Analytics rows stored for it (and the
\* number of files served for it) never exceeds its max_downloads, whatever
\* the interleaving of the access attempts.
C1_DownloadCeiling ==
    \A r \in records :
        /\ DownloadCount(events, r) <= r.max_downloads
        /\ granted[r.public_link] <= r.max_downloads

\* C2: attempts made one after another with the right password before the
\* expiry: each grant adds exactly one Analytics row to its record, which had
\* fewer than max_downloads rows; a rejection happens only when the record
\* already has max_downloads rows, it is an Http404 and adds no row.
C2_CeilingSequential ==
    [][\A r \in records :
          /\ (response'.kind = "File" /\ response'.link = r.public_link)
                => /\ DownloadCount(events, r) < r.max_downloads
                   /\ DownloadCount(events', r) = DownloadCount(events, r) + 1
                   /\ Len(events') = Len(events) + 1
          /\ ( /\ response'.view = "access"
               /\ response'.link = r.public_link
               /\ response'.request.method = "POST" /\ response'.request.valid
               /\ response'.request.password = r.password
               /\ now' < r.expires_at
               /\ response'.kind # "File" )
                => /\ response'.kind = "Http404"
                   /\ DownloadCount(events, r) = r.max_downloads
                   /\ events' = events
      ]_vars

\* C2 witness: a record with maxDownloads = 2 has its two rows, and a third
\* attempt with the right password, before the expiry, was answered Http404.
C2_Witness ==
    \E r \in records :
        /\ r.max_downloads = 2
        /\ DownloadCount(events, r) = 2
        /\ now < r.expires_at
        /\ PostAnswered(r)
        /\ response.request.password = r.password
        /\ response.kind = "Http404"

\* C3 as stated: once a record is expired, whatever is requested on its public
\* link or its analytics link is answered Http404, as for a link of no record.
C3_ExpiryOpacityEveryRequest ==
    \A r \in records :
        r.expires_at <= now =>
            /\ (response.view = "access" /\ response.link = r.public_link
                    /\ response.kind # "File")
                   => response.kind = "Http404"
            /\ (response.view = "analytics" /\ response.link = r.analytic_link)
                   => response.kind = "Http404"

\* C3 amended: once a record is expired, a POST with the record's password on
\* its public link is answered Http404 (the count step never goes on to a
\* grant), and every request on its analytics link is answered Http404; this
\* is the answer every request gets on a link of no record.
C3_ExpiryOpacity ==
    [][/\ \A r \in records :
             r.expires_at <= now =>
                 /\ \A p \in Procs :
                        (pc[p] = "count" /\ pc'[p] # "count"
                              /\ upload_file[p].public_link = r.public_link)
                            => /\ pc'[p] = "idle"
                               /\ response' = Http404("access", r.public_link, form[p])
                 /\ (response'.view = "analytics" /\ response'.link = r.analytic_link)
                        => response'.kind = "Http404"
       /\ (response'.view = "access" /\ Lookup(records, response'.link) = {})
              => response'.kind = "Http404"
       /\ (response'.view = "analytics"
              /\ QuerySetByAnalyticLink(records, response'.link) = {})
              => response'.kind = "Http404"
      ]_vars

\* C3 witness: a POST with the right password on the public link of an expired
\* record that still has downloads left was answered Http404.
C3_Witness ==
    \E r \in records :
        /\ r.expires_at <= now
        /\ DownloadCount(events, r) < r.max_downloads
        /\ PostAnswered(r)
        /\ response.request.password = r.password
        /\ response.kind = "Http404"

\* C4: on a record with a non-empty password, a POST that submits another
\* value (the empty string included) is answered InvalidPassword, whatever
\* the count and the expiry are; a file is served only to the record's password.
C4_PasswordGate ==
    /\ \A r \in records :
          (r.password # "" /\ PostAnswered(r)) =>
              IF response.request.password = r.password
              THEN response.kind \in {"File", "Http404"}
              ELSE response.kind = "InvalidPassword"
    /\ \A p \in Procs :
          pc[p] \in {"count", "grant"} => form[p].password = upload_file[p].password

\* C4 witness: the empty string was submitted on an expired record that has a
\* password, and the answer was InvalidPassword.
C4_Witness ==
    \E r \in records :
        /\ r.password # ""
        /\ r.expires_at <= now
        /\ PostAnswered(r)
        /\ response.request.password = ""
        /\ response.kind = "InvalidPassword"

\* C5 as stated: on a record whose password is empty no POST is answered
\* InvalidPassword, whatever password it submits, and one is rejected only
\* when the record is expired or has reached max_downloads.
C5_NoPasswordRequired ==
    \A r \in records :
        (r.password = "" /\ PostAnswered(r)) =>
            /\ response.kind # "InvalidPassword"
            /\ response.kind = "Http404"
                   => (r.expires_at <= now \/ DownloadCount(events, r) >= r.max_downloads)

\* C6: the step that answers InvalidPassword changes nothing: no table, no
\* file, no counter, no worker; what follows it is what would have followed
\* without it.
C6_InvalidPasswordNoMutation ==
    [][response'.kind = "InvalidPassword"
          => UNCHANGED <<records, events, store, writes, granted, now, pc, model,
                         upload_file, form>>]_vars

\* C6 witness: a wrong password was rejected on a record that has a download
\* left and is not expired.
C6_Witness ==
    \E r \in records :
        /\ PostAnswered(r)
        /\ response.kind = "InvalidPassword"
        /\ response.request.password # r.password
        /\ DownloadCount(events, r) < r.max_downloads
        /\ now < r.expires_at

\* C7: after uploads that do not overlap, two records with the same file_hash
\* have the same file, which is in the storage, and the bytes of every hash
\* that has a record were written exactly once (no other hash was written).
C7_DedupIdempotence ==
    /\ \A r1, r2 \in records : r1.file_hash = r2.file_hash => r1.file = r2.file
    /\ \A r \in records : r.file \in store
    /\ \A h \in Hashes :
          writes[h] = IF \E r \in records : r.file_hash = h THEN 1 ELSE 0

\* C7 witness: the same bytes uploaded twice under two names: two records,
\* one file, one write.
C7_Witness ==
    \E r1, r2 \in records :
        /\ r1.public_link # r2.public_link
        /\ r1.file_hash = r2.file_hash
        /\ r1.file_name # r2.file_name
        /\ r1.file = r2.file
        /\ writes[r1.file_hash] = 1
        /\ pc = [p \in Procs |-> "idle"]

\* C8 as stated: whatever the interleaving of two uploads of the same content,
\* the bytes of a hash are written at most once and no two records of one
\* hash hold different files.
C8_DedupRace ==
    /\ \A h \in Hashes : writes[h] <= 1
    /\ \A r1, r2 \in records : r1.file_hash = r2.file_hash => r1.file = r2.file

\* the rows of Analytics that belong to record r, by position
RowsOf(r) == {i \in 1..Len(events) : events[i].upload_file_id = r.public_link}
DetailOf(e) == [j \in 1..Len(DetailFields) |-> e[DetailFields[j]]]

\* C9: a report on a record maps, for os, device_type and browser, exactly the
\* values seen in the record's rows to the number of rows that carry them, and
\* its detail table has the rows of the record, one each, and no other row.
C9_AggregateCorrectness ==
    response.kind = "Report" =>
        \A r \in records :
            r.analytic_link = response.link =>
                /\ \A j \in 1..Len(ChartAttributes) :
                      LET a == ChartAttributes[j]
                          chart == response.chart_data[a]
                      IN /\ DOMAIN chart = {events[i][a] : i \in RowsOf(r)}
                         /\ \A v \in DOMAIN chart :
                               chart[v] = Cardinality({i \in RowsOf(r) : events[i][a] = v})
                /\ Len(response.detailed) = Cardinality(RowsOf(r))
                /\ \A i \in RowsOf(r) :
                      Cardinality({k \in 1..Len(response.detailed) :
                                      response.detailed[k] = DetailOf(events[i])})
                          = Cardinality({k \in RowsOf(r) :
                                      DetailOf(events[k]) = DetailOf(events[i])})

\* C9 witness: a report on a record with a row, while another record has a row too.
C9_Witness ==
    /\ response.kind = "Report"
    /\ Len(response.detailed) >= 1
    /\ Len(events) > Len(response.detailed)

\* C10: the analytics view answers Http404 exactly when no record has the
\* analytic link or the record is expired (expires_at <= now), and a report
\* otherwise.
C10_AnalyticsNotFound ==
    response.view = "analytics" =>
        LET query == QuerySetByAnalyticLink(records, response.link)
        IN IF query = {} \/ \E r \in query : r.expires_at <= now
           THEN response.kind = "Http404"
           ELSE response.kind = "Report"

\* C10 witness: a record with a stored row is expired and its analytics link
\* was answered Http404.
C10_Witness ==
    \E r \in records :
        /\ r.expires_at <= now
        /\ DownloadCount(events, r) >= 1
        /\ response.view = "analytics"
        /\ response.link = r.analytic_link
        /\ response.kind = "Http404"

\* C11: a call of the analytics view, whatever it answers, leaves the tables,
\* the storage and the counters as they were, and a call that follows another
\* one on the same link, with no row added and no tick between, answers the same.
C11_AnalyticsPureRead ==
    [][response'.view = "analytics"
          => /\ UNCHANGED <<records, events, store, writes, granted, now, model,
                            upload_file, form>>
             /\ (response.view = "analytics" /\ response.link = response'.link)
                    => response' = response]_vars

\* C11 witness: a report was given on a record that has both of the rows stored.
C11_Witness ==
    /\ response.kind = "Report"
    /\ Len(response.detailed) = 2
    /\ Len(events) = 2

\* C12 as stated: no two records share a public link or an analytic link, and
\* no step replaces or removes a record that is in the table.
C12_LinksUnique ==
    [][/\ \A r \in records : r \in records'
       /\ \A r1, r2 \in records' :
             (r1.public_link = r2.public_link \/ r1.analytic_link = r2.analytic_link)
                 => r1 = r2]_vars

\* a record that answers every further attempt with Http404
Exhausted(r) == DownloadCount(events, r) >= r.max_downloads \/ r.expires_at <= now

\* C13: a rejection of a right-password attempt is given only on a record
\* that is at its limit or expired; a record in that condition stays in it
\* (no row is removed, the clock does not go back, the record is not
\* rewritten), and no attempt on it goes on to a grant.
C13_LimitExceededTerminal ==
    [][\A r \in records :
          /\ ( /\ response'.view = "access" /\ response'.kind = "Http404"
               /\ response'.link = r.public_link )
                => Exhausted(r)'
          /\ Exhausted(r) => (r \in records' /\ Exhausted(r)')
          /\ Exhausted(r) =>
                \A p \in Procs :
                    (pc[p] = "count" /\ upload_file[p].public_link = r.public_link)
                        => pc'[p] # "grant"
      ]_vars

\* C13 witness: an attempt with the right password was rejected on a record at
\* its limit, before the expiry, and the record has no download to give.
C13_Witness ==
    \E r \in records :
        /\ DownloadCount(events, r) = r.max_downloads
        /\ granted[r.public_link] = r.max_downloads
        /\ now < r.expires_at
        /\ PostAnswered(r)
        /\ response.kind = "Http404"

\* C14: the file of every record is in the storage, and an upload whose write
\* fails leaves the table of records as it was.
C14_RecordAfterBytes ==
    [][/\ \A r \in records' : r.file \in store'
       /\ response'.kind = "StorageWriteFailed" => records' = records]_vars

\* C14 witness: the write of an upload failed and no record has its hash.
C14_Witness ==
    /\ response.kind = "StorageWriteFailed"
    /\ \A r \in records : r.file_hash # response.file_hash

\* C15: whatever the interleaving, the files served on a link are as many as
\* the Analytics rows of the link; a row is added only by the step that serves
\* the file, one row, for that link, to a POST with the record's password; and
\* an attempt goes on to a grant only below the limit and before the expiry.
C15_GrantsAndEvents ==
    [][/\ \A l \in PublicLinks : granted'[l] = Len(EventsOf(events', l))
       /\ events' # events
             => /\ response'.kind = "File"
                /\ events' = Append(events, events'[Len(events')])
                /\ events'[Len(events')].upload_file_id = response'.link
                /\ response'.request.method = "POST" /\ response'.request.valid
                /\ \E p \in Procs :
                      /\ pc[p] = "grant" /\ pc'[p] = "idle"
                      /\ upload_file[p].public_link = response'.link
                      /\ response'.request.password = upload_file[p].password
       /\ \A p \in Procs :
             (pc[p] = "count" /\ pc'[p] = "grant")
                 => /\ Len(EventsOf(events, upload_file[p].public_link))
                           < upload_file[p].max_downloads
                    /\ now < upload_file[p].expires_at
      ]_vars

\* C15 witness: the file of one record was served a second time and the
\* record has its second row.
C15_Witness ==
    \E l \in PublicLinks :
        /\ granted[l] = 2
        /\ Len(EventsOf(events, l)) = 2
        /\ response.kind = "File"
        /\ response.link = l

\* C16: the expiry boundary, for requests served one after another: an attempt
\* with the record's password on a record below its limit goes on to the grant
\* (and the grant serves the file) when the clock is strictly before
\* expires_at, and is answered Http404 when the clock is at or after
\* expires_at, whatever the count is; the analytics view gives the report
\* exactly when the clock is strictly before expires_at.
C16_ExpiryBoundary ==
    [][/\ \A p \in Procs :
             (pc[p] = "count" /\ pc'[p] # "count")
                 => LET r == upload_file[p]
                    IN /\ (now < r.expires_at
                              /\ Len(EventsOf(events, r.public_link)) < r.max_downloads)
                           => pc'[p] = "grant"
                       /\ now >= r.expires_at
                           => /\ pc'[p] = "idle"
                              /\ response' = Http404("access", r.public_link, form[p])
                              /\ events' = events
       /\ \A p \in Procs :
             (pc[p] = "grant" /\ pc'[p] # "grant")
                 => /\ response'.kind = "File"
                    /\ response'.link = upload_file[p].public_link
       /\ \A r \in records :
             (response'.view = "analytics" /\ response'.link = r.analytic_link)
                 => (response'.kind = "Report" <=> now < r.expires_at)
      ]_vars

\* C16 witness: a record with maxDownloads = 2 was served once before its
\* expiry, and the attempt with its password made at the very time expires_at
\* was answered Http404 with a download still left.
C16_Witness ==
    \E r \in records :
        /\ now = r.expires_at
        /\ r.max_downloads = 2
        /\ DownloadCount(events, r) = 1
        /\ PostAnswered(r)
        /\ response.request.password = r.password
        /\ response.kind = "Http404"

\* C17: for requests served one after another, no step of an access attempt
\* or of an analytics view changes the table of records, whatever it answers;
\* the table changes only in a step of an upload, and that step leaves every
\* record that was already there as it was.
C17_RecordNeverMutated ==
    [][/\ response'.view \in {"access", "analytics"} => records' = records
       /\ \A p \in Procs :
             (pc[p] \in {"count", "grant"} \/ pc'[p] \in {"count", "grant"})
                 => records' = records
       /\ records' # records
             => /\ \E p \in Procs : pc[p] \in {"reuse", "store", "save"}
                /\ \A r \in records : r \in records'
      ]_vars

\* C17 witness: the only download of a record was served, and the record still
\* has max_downloads = 1 and the file it was created with.
C17_Witness ==
    \E r \in records :
        /\ r.max_downloads = 1
        /\ response.kind = "File"
        /\ response.link = r.public_link
        /\ response.file = r.file
        /\ DownloadCount(events, r) = 1

\* C18: for requests served one after another, the count step is entered only
\* by a POST with a valid form whose password is the record's; an Http404 on
\* the public link of a record is given only by the count step, to such an
\* attempt; and a POST with another password is answered InvalidPassword
\* without the count step, whatever the count and the expiry of the record.
C18_PasswordBeforeConstraints ==
    [][/\ \A p \in Procs :
             (pc[p] # "count" /\ pc'[p] = "count")
                 => /\ upload_file'[p] \in records
                    /\ form'[p].method = "POST" /\ form'[p].valid
                    /\ form'[p].password = upload_file'[p].password
       /\ \A r \in records :
             (response'.view = "access" /\ response'.link = r.public_link
                   /\ response'.kind = "Http404")
                 => \E p \in Procs :
                       /\ pc[p] = "count" /\ pc'[p] = "idle"
                       /\ upload_file[p] = r
                       /\ response'.request = form[p]
                       /\ form[p].password = r.password
       /\ \A r \in records :
             (response'.view = "access" /\ response'.link = r.public_link
                   /\ response'.request.method = "POST" /\ response'.request.valid
                   /\ response'.request.password # r.password)
                 => /\ response'.kind = "InvalidPassword"
                    /\ \A p \in Procs : pc[p] = "idle" /\ pc'[p] = "idle"
      ]_vars

\* C18 witness: a wrong password was submitted on a record that has reached
\* max_downloads, and the answer was InvalidPassword.
C18_Witness ==
    \E r \in records :
        /\ DownloadCount(events, r) = r.max_downloads
        /\ PostAnswered(r)
        /\ response.request.password # r.password
        /\ response.kind = "InvalidPassword"

\* C19: for requests served one after another, a GET on a public link is
\* answered with the password page (Http404 when the link is of no record),
\* in one step that leaves records, rows, storage and served files as they
\* were; the count and grant steps, a served file and an Http404 on the link
\* of a record belong to a POST with a valid form only.
C19_GetNeverDecides ==
    [][/\ (response'.view = "access" /\ response'.request.method = "GET")
             => /\ IF Lookup(records, response'.link) = {}
                   THEN response'.kind = "Http404"
                   ELSE response'.kind = "Page"
                /\ \A p \in Procs : pc[p] = "idle" /\ pc'[p] = "idle"
                /\ UNCHANGED <<records, events, store, writes, granted>>
       /\ \A p \in Procs :
             pc'[p] \in {"count", "grant"} => (form'[p].method = "POST" /\ form'[p].valid)
       /\ ( /\ response'.view = "access"
            /\ \/ response'.kind = "File"
               \/ response'.kind = "Http404" /\ Lookup(records, response'.link) # {} )
             => (response'.request.method = "POST" /\ response'.request.valid)
      ]_vars

\* C19 witness: a GET on the public link of a record without password, not
\* expired and with no download yet, got the page without the password field.
C19_Witness ==
    \E r \in records :
        /\ r.password = ""
        /\ now < r.expires_at
        /\ DownloadCount(events, r) = 0
        /\ response.view = "access"
        /\ response.link = r.public_link
        /\ response.request.method = "GET"
        /\ response.kind = "Page"
        /\ ~response.visible

\* C20: for requests served one after another, a served file adds one row to
\* its own record and leaves the rows of every other record as they were, the
\* records that share its file included; the count step of a record goes on
\* to the grant exactly when the record's own rows are fewer than its
\* max_downloads and it is not expired; and the report of a record lists as
\* many rows as the record has.
C20_CountersPerRecord ==
    [][\A r \in records :
          /\ (response'.kind = "File" /\ response'.link # r.public_link)
                => EventsOf(events', r.public_link) = EventsOf(events, r.public_link)
          /\ (response'.kind = "File" /\ response'.link = r.public_link)
                => Len(EventsOf(events', r.public_link))
                       = Len(EventsOf(events, r.public_link)) + 1
          /\ \A p \in Procs :
                (pc[p] = "count" /\ pc'[p] # "count" /\ upload_file[p] = r)
                    => (pc'[p] = "grant"
                           <=> /\ Len(EventsOf(events, r.public_link)) < r.max_downloads
                               /\ now < r.expires_at)
          /\ (response'.view = "analytics" /\ response'.link = r.analytic_link
                 /\ response'.kind = "Report")
                => Len(response'.detailed) = Len(EventsOf(events, r.public_link))
      ]_vars

\* C20 witness: two records share one file; one has used up its max_downloads,
\* and the other was just served its first download.
C20_Witness ==
    \E r1, r2 \in records :
        /\ r1 # r2
        /\ r1.file = r2.file
        /\ Len(EventsOf(events, r1.public_link)) = r1.max_downloads
        /\ response.kind = "File"
        /\ response.link = r2.public_link
        /\ Len(EventsOf(events, r2.public_link)) = 1

====
